---- MODULE Spec2Model ----
(***************************************************************************)
(* Model of the input manager of wlroots-rs                                *)
(* (src/src/manager/input_manager.rs): the device-added listener           *)
(* InputManager::add_notify, the keyboard set-up helper add_keyboard and   *)
(* the default methods of the InputManagerHandler trait.                   *)
(*                                                                         *)
(* add_notify runs synchronously on the event-loop thread, so one          *)
(* notification is one action.  The action is computed by threading a      *)
(* call frame through one operator per code segment; the frame records     *)
(* the calls made (its trace) so that ordering inside one notification     *)
(* can be stated over states.                                              *)
(***************************************************************************)
EXTENDS Integers, Sequences, FiniteSets, TLC

VARIABLES
    proc,      \* "running" | "aborted": the compositor process
    manager,   \* the methods of InputManagerHandler the user's manager overrides
    env,       \* the process environment: XKB_DEFAULT_* -> value or UNSET
    dev,       \* the driver's input devices (wlr_input_device), by id
    note,      \* the most recent device-added notification: what it did
    xkb        \* xkb objects acquired and not yet released by this code

vars == <<proc, manager, env, dev, note, xkb>>

-----------------------------------------------------------------------------
(* Bounds *)

MaxDevices == 2     \* devices the driver attaches during one run
MaxAdds == 2        \* device-added notifications delivered for one device

Devices == 1..MaxDevices

-----------------------------------------------------------------------------
(* Device kinds: wlr_input_device_type *)

WLR_INPUT_DEVICE_KEYBOARD == "KEYBOARD"
WLR_INPUT_DEVICE_POINTER == "POINTER"
WLR_INPUT_DEVICE_TOUCH == "TOUCH"
WLR_INPUT_DEVICE_TABLET_TOOL == "TABLET_TOOL"
WLR_INPUT_DEVICE_TABLET_PAD == "TABLET_PAD"

KnownKinds ==
    { WLR_INPUT_DEVICE_KEYBOARD, WLR_INPUT_DEVICE_POINTER, WLR_INPUT_DEVICE_TOUCH,
      WLR_INPUT_DEVICE_TABLET_TOOL, WLR_INPUT_DEVICE_TABLET_PAD }

\* A raw type value that is none of the five enumerators.
OUT_OF_RANGE == "OUT_OF_RANGE"

RawKinds == KnownKinds \cup {OUT_OF_RANGE}

\* The match of add_notify has five arms and no wildcard arm.  Matching a
\* value that is no enumerator is undefined behaviour: the build may run any
\* one arm, fall out of the match, or trap.
UBOutcomes == KnownKinds \cup {"skip", "trap"}

-----------------------------------------------------------------------------
(* The InputManagerHandler trait *)

\* The acceptance operation add_notify calls in the arm of each kind.
AddedOp(kind) ==
    CASE kind = WLR_INPUT_DEVICE_KEYBOARD -> "keyboard_added"
      [] kind = WLR_INPUT_DEVICE_POINTER -> "pointer_added"
      [] kind = WLR_INPUT_DEVICE_TOUCH -> "touch_added"
      [] kind = WLR_INPUT_DEVICE_TABLET_TOOL -> "tablet_tool_added"
      [] kind = WLR_INPUT_DEVICE_TABLET_PAD -> "tablet_pad_added"

AddedOps == { AddedOp(k) : k \in KnownKinds }

Methods == AddedOps \cup {"input_added"}

\* DefaultAdded with a default that accepts.
DefaultAddedSome(op) == "Some"

\* The provided (default) body of each acceptance method: None.
DefaultAdded(op) == "None"

\* The provided (default) body of input_added: {}.
DefaultInputAdded == "ok"

\* The managers a run is started with: only defaults, or every method
\* overridden by user code (which may still decline).
ManagerChoices == { {}, Methods }

-----------------------------------------------------------------------------
(* The signals add_notify subscribes to, per arm, in the order of the code *)

\* Listeners with the destroy listener added first.
ListenersDestroyFirst(kind) ==
    CASE kind = WLR_INPUT_DEVICE_KEYBOARD ->
            <<"destroy", "key", "modifiers", "keymap", "repeat_info">>
      [] kind = WLR_INPUT_DEVICE_POINTER ->
            <<"destroy", "motion", "motion_absolute", "button", "axis">>
      [] kind = WLR_INPUT_DEVICE_TOUCH ->
            <<"destroy", "down", "up", "motion", "cancel">>
      [] kind = WLR_INPUT_DEVICE_TABLET_TOOL ->
            <<"destroy", "axis", "proximity", "tip", "button">>
      [] kind = WLR_INPUT_DEVICE_TABLET_PAD ->
            <<"destroy", "button", "ring", "strip">>

Listeners(kind) ==
    CASE kind = WLR_INPUT_DEVICE_KEYBOARD ->
            <<"key", "modifiers", "keymap", "repeat_info", "destroy">>
      [] kind = WLR_INPUT_DEVICE_POINTER ->
            <<"motion", "motion_absolute", "button", "axis", "destroy">>
      [] kind = WLR_INPUT_DEVICE_TOUCH ->
            <<"down", "up", "motion", "cancel", "destroy">>
      [] kind = WLR_INPUT_DEVICE_TABLET_TOOL ->
            <<"axis", "proximity", "tip", "button", "destroy">>
      [] kind = WLR_INPUT_DEVICE_TABLET_PAD ->
            <<"button", "ring", "strip", "destroy">>

\* The event channels a device of each kind has, besides destroy.
ChannelSet(kind) ==
    CASE kind = WLR_INPUT_DEVICE_KEYBOARD -> {"key", "modifiers", "keymap", "repeat_info"}
      [] kind = WLR_INPUT_DEVICE_POINTER -> {"motion", "motion_absolute", "button", "axis"}
      [] kind = WLR_INPUT_DEVICE_TOUCH -> {"down", "up", "motion", "cancel"}
      [] kind = WLR_INPUT_DEVICE_TABLET_TOOL -> {"axis", "proximity", "tip", "button"}
      [] kind = WLR_INPUT_DEVICE_TABLET_PAD -> {"button", "ring", "strip"}

EventChannels == UNION { ChannelSet(k) : k \in KnownKinds }

\* The channels the driver emits on for a device of raw type t: those of its
\* kind; a device of no known kind has none of the five payloads.
DeviceChannels(t) == IF t \in KnownKinds THEN ChannelSet(t) ELSE {}

-----------------------------------------------------------------------------
(* The environment and the keymap *)

EnvVars ==
    { "XKB_DEFAULT_RULES", "XKB_DEFAULT_MODEL", "XKB_DEFAULT_LAYOUT",
      "XKB_DEFAULT_VARIANT", "XKB_DEFAULT_OPTIONS" }

UNSET == "<unset>"

\* A value that is set but is not valid Unicode: env::var gives Err for it.
NOT_UNICODE == "<not unicode>"

\* A valid value for each variable, different for each.
SampleValue(v) ==
    CASE v = "XKB_DEFAULT_RULES" -> "evdev"
      [] v = "XKB_DEFAULT_MODEL" -> "pc105"
      [] v = "XKB_DEFAULT_LAYOUT" -> "us"
      [] v = "XKB_DEFAULT_VARIANT" -> "dvorak"
      [] v = "XKB_DEFAULT_OPTIONS" -> "ctrl:nocaps"

AllUnset == [v \in EnvVars |-> UNSET]

\* The environments a run is started in.
EnvStates == { AllUnset, [AllUnset EXCEPT !["XKB_DEFAULT_LAYOUT"] = "us"] }

NoKeymap == [v \in EnvVars |-> "<none>"]

REPEAT_RATE == 25
REPEAT_DELAY == 600

NoRepeat == <<0, 0>>

-----------------------------------------------------------------------------
(* State *)

NULL == 0

\* A device the driver has not attached (or has freed).
NoDevice(life) ==
    [ life |-> life,          \* "absent" | "attached" | "destroyed"
      type |-> OUT_OF_RANGE,  \* raw type_ field
      subs |-> <<>>,          \* listeners linked into the device's signals
      data |-> NULL,          \* (*data).data: the per-device slot
      units |-> {},           \* live wrappers (Bound Units) made for the device
      keymap |-> NoKeymap,    \* names of the keymap set on the keyboard
      repeat |-> NoRepeat,    \* <<rate, delay>> set on the keyboard
      adds |-> 0,             \* device-added notifications delivered
      emitted |-> FALSE,      \* the driver has emitted an event of the device
      released |-> 0,         \* wrappers dropped by the destroy notification
      ran |-> 0 ]             \* handler callbacks run by the last emitted event

NoNote ==
    [ d |-> 0,                \* the device the notification was for
      type |-> OUT_OF_RANGE,  \* its raw type
      status |-> "none",      \* "returned" | "aborted"
      trace |-> <<>>,         \* the calls made, in order
      arm |-> "none",         \* the arm of the match that ran
      compositor |-> FALSE,   \* compositor_handle() returned a handle
      accepted |-> "-",       \* what the acceptance operation returned
      names |-> NoKeymap ]    \* the xkb_rule_names given to the compiler

Init ==
    /\ proc = "running"
    /\ manager \in ManagerChoices
    /\ env \in EnvStates
    /\ dev = [d \in Devices |-> NoDevice("absent")]
    /\ note = NoNote
    /\ xkb = [ctx |-> 0, map |-> 0]

-----------------------------------------------------------------------------
(* The call frame of one add_notify *)

Frame(device) ==
    [ dev |-> device, xkb |-> xkb, status |-> "running", trace |-> <<>>,
      arm |-> "none", compositor |-> FALSE, accepted |-> "-", names |-> NoKeymap ]

Call(f, op, arg) == [f EXCEPT !.trace = Append(@, [op |-> op, arg |-> arg])]

\* panic!(..), or a panic raised by user code: unwinds to catch_unwind.
Panic(f, where) == [Call(f, "panic", where) EXCEPT !.status = "panicked"]

\* std::process::abort()
Abort(f, where) == [Call(f, "abort", where) EXCEPT !.status = "aborted"]

-----------------------------------------------------------------------------
(* add_keyboard *)

\* env::var(NAME): Ok(value) when the variable is set to valid Unicode.
EnvVarIsOk(v) == env[v] \notin {UNSET, NOT_UNICODE}

\* XkbRuleNames with the layout and the variant taken from each other's
\* variable.
XkbRuleNamesSwapped ==
    LET from(v) == CASE v = "XKB_DEFAULT_LAYOUT" -> "XKB_DEFAULT_VARIANT"
                     [] v = "XKB_DEFAULT_VARIANT" -> "XKB_DEFAULT_LAYOUT"
                     [] OTHER -> v
    IN  [v \in EnvVars |-> IF EnvVarIsOk(from(v)) THEN env[from(v)] ELSE ""]

\* env::var(NAME).unwrap_or("".into()), for each of the five variables
XkbRuleNames == [v \in EnvVars |-> IF EnvVarIsOk(v) THEN env[v] ELSE ""]

\* add_keyboard that sets the repeat policy before it makes the keymap.
add_keyboardRepeatFirst(f, in) ==
    LET f0 == Call([Call(f, "add_keyboard", "")
                      EXCEPT !.dev.repeat = <<REPEAT_RATE, REPEAT_DELAY>>],
                   "wlr_keyboard_set_repeat_info", "")
        f1 == Call(f0, "xkb_context_new", "")
    IN  IF ~in.ctxOk
        THEN Panic(f1, "add_keyboard")
        ELSE
          LET f2 == Call([f1 EXCEPT !.xkb.ctx = @ + 1, !.names = XkbRuleNames],
                         "xkb_keymap_new_from_names", "")
          IN  IF ~in.mapOk
              THEN Panic(f2, "add_keyboard")
              ELSE
                LET f3 == Call([f2 EXCEPT !.xkb.map = @ + 1, !.dev.keymap = f2.names],
                               "wlr_keyboard_set_keymap", "")
                    f4 == Call([f3 EXCEPT !.xkb.map = @ - 1], "xkb_keymap_unref", "")
                IN  Call([f4 EXCEPT !.xkb.ctx = @ - 1], "xkb_context_unref", "")

\* add_keyboard without xkb_keymap_unref.
add_keyboardKeepsKeymap(f, in) ==
    LET f0 == Call(f, "add_keyboard", "")
        f1 == Call(f0, "xkb_context_new", "")
    IN  IF ~in.ctxOk
        THEN Panic(f1, "add_keyboard")
        ELSE
          LET f2 == Call([f1 EXCEPT !.xkb.ctx = @ + 1, !.names = XkbRuleNames],
                         "xkb_keymap_new_from_names", "")
          IN  IF ~in.mapOk
              THEN Panic(f2, "add_keyboard")
              ELSE
                LET f3 == Call([f2 EXCEPT !.xkb.map = @ + 1, !.dev.keymap = f2.names],
                               "wlr_keyboard_set_keymap", "")
                    f5 == Call([f3 EXCEPT !.xkb.ctx = @ - 1], "xkb_context_unref", "")
                IN  Call([f5 EXCEPT !.dev.repeat = <<REPEAT_RATE, REPEAT_DELAY>>],
                         "wlr_keyboard_set_repeat_info", "")

\* add_keyboard with the arguments of wlr_keyboard_set_repeat_info swapped.
add_keyboardRepeatSwapped(f, in) ==
    LET f0 == Call(f, "add_keyboard", "")
        f1 == Call(f0, "xkb_context_new", "")
    IN  IF ~in.ctxOk
        THEN Panic(f1, "add_keyboard")
        ELSE
          LET f2 == Call([f1 EXCEPT !.xkb.ctx = @ + 1, !.names = XkbRuleNames],
                         "xkb_keymap_new_from_names", "")
          IN  IF ~in.mapOk
              THEN Panic(f2, "add_keyboard")
              ELSE
                LET f3 == Call([f2 EXCEPT !.xkb.map = @ + 1, !.dev.keymap = f2.names],
                               "wlr_keyboard_set_keymap", "")
                    f4 == Call([f3 EXCEPT !.xkb.map = @ - 1], "xkb_keymap_unref", "")
                    f5 == Call([f4 EXCEPT !.xkb.ctx = @ - 1], "xkb_context_unref", "")
                IN  Call([f5 EXCEPT !.dev.repeat = <<REPEAT_DELAY, REPEAT_RATE>>],
                         "wlr_keyboard_set_repeat_info", "")

add_keyboard(f, in) ==
    LET f0 == Call(f, "add_keyboard", "")
        f1 == Call(f0, "xkb_context_new", "")
    IN  IF ~in.ctxOk
        THEN Panic(f1, "add_keyboard")
        ELSE
          LET f2 == Call([f1 EXCEPT !.xkb.ctx = @ + 1, !.names = XkbRuleNames],
                         "xkb_keymap_new_from_names", "")
          IN  IF ~in.mapOk
              THEN Panic(f2, "add_keyboard")
              ELSE
                LET f3 == Call([f2 EXCEPT !.xkb.map = @ + 1, !.dev.keymap = f2.names],
                               "wlr_keyboard_set_keymap", "")
                    f4 == Call([f3 EXCEPT !.xkb.map = @ - 1], "xkb_keymap_unref", "")
                    f5 == Call([f4 EXCEPT !.xkb.ctx = @ - 1], "xkb_context_unref", "")
                IN  Call([f5 EXCEPT !.dev.repeat = <<REPEAT_RATE, REPEAT_DELAY>>],
                         "wlr_keyboard_set_repeat_info", "")

-----------------------------------------------------------------------------
(* One arm of the match *)

wl_signal_add(f, ch, unit) ==
    Call([f EXCEPT !.dev.subs = Append(@, [ch |-> ch, unit |-> unit])],
         "wl_signal_add", ch)

RECURSIVE SubscribeAll(_, _, _)
SubscribeAll(f, chs, unit) ==
    IF chs = <<>> THEN f
    ELSE SubscribeAll(wl_signal_add(f, Head(chs), unit), Tail(chs), unit)

\* Bind that never stores the wrapper in the slot.
BindForgetsSlot(kind, f) ==
    LET unit == f.dev.adds
        f1 == Call([f EXCEPT !.dev.units = @ \cup {unit}], "Wrapper::new", "")
    IN  SubscribeAll(f1, Listeners(kind), unit)

\* Bind that stores the wrapper in the slot before it adds the listeners.
BindPublishesFirst(kind, f) ==
    LET unit == f.dev.adds
        f1 == Call([f EXCEPT !.dev.units = @ \cup {unit}], "Wrapper::new", "")
        f2 == Call([f1 EXCEPT !.dev.data = unit], "set_data", "")
    IN  SubscribeAll(f2, Listeners(kind), unit)

\* Bind that lets the wrapper drop at the end of the block (no Box::into_raw).
BindDropsWrapper(kind, f) ==
    LET unit == f.dev.adds
        f1 == Call([f EXCEPT !.dev.units = @ \cup {unit}], "Wrapper::new", "")
        f2 == SubscribeAll(f1, Listeners(kind), unit)
    IN  Call([f2 EXCEPT !.dev.units = @ \ {unit}], "drop", "")

\* Bind with one wrapper for the kind's listeners and another for destroy.
BindTwoWrappers(kind, f) ==
    LET unit == f.dev.adds
        f1 == Call([f EXCEPT !.dev.units = @ \cup {unit, unit + MaxAdds}],
                   "Wrapper::new", "")
        f2 == SubscribeAll(f1, Listeners(kind), unit)
    IN  Call([f2 EXCEPT !.dev.data = unit], "set_data", "")

\* The body of `if let Some(handler) = manager.<kind>_added(..)`: the wrapper
\* is built, its listeners are added, and it is stored in (*data).data.
Bind(kind, f) ==
    LET unit == f.dev.adds
        f1 == Call([f EXCEPT !.dev.units = @ \cup {unit}], "Wrapper::new", "")
        f2 == SubscribeAll(f1, Listeners(kind), unit)
    IN  Call([f2 EXCEPT !.dev.data = unit], "set_data", "")

\* manager.<kind>_added(compositor.clone(), handle)
Added(kind, f, in) ==
    LET op == AddedOp(kind)
        r == IF op \in manager THEN in.accept ELSE DefaultAdded(op)
        f1 == [Call(f, op, "") EXCEPT !.accepted = r]
    IN  IF r = "panic" THEN Panic(f1, op) ELSE f1

\* Arm that leaves the match when the conversion fails, instead of aborting.
ArmSkipsFailedConversion(kind, f, in) ==
    LET f1 == IF kind = WLR_INPUT_DEVICE_KEYBOARD THEN add_keyboard(f, in) ELSE f
    IN  IF f1.status # "running" THEN f1
        ELSE
          LET f2 == Call(f1, "new_from_input_device", IF in.conv THEN "Some" ELSE "None")
          IN  IF ~in.conv
              THEN f2
              ELSE
                LET f3 == Added(kind, f2, in)
                IN  IF f3.status = "running" /\ f3.accepted = "Some"
                    THEN Bind(kind, f3)
                    ELSE f3

\* Arm that binds whether or not a handler was returned.
ArmBindsWithoutHandler(kind, f, in) ==
    LET f1 == IF kind = WLR_INPUT_DEVICE_KEYBOARD THEN add_keyboard(f, in) ELSE f
    IN  IF f1.status # "running" THEN f1
        ELSE
          LET f2 == Call(f1, "new_from_input_device", IF in.conv THEN "Some" ELSE "None")
          IN  IF ~in.conv
              THEN Abort(f2, "new_from_input_device")
              ELSE
                LET f3 == Added(kind, f2, in)
                IN  IF f3.status = "running" THEN Bind(kind, f3) ELSE f3

\* Arm that sets the keyboard up only once a handler has accepted it.
ArmKeymapOnAccept(kind, f, in) ==
    LET f2 == Call(f, "new_from_input_device", IF in.conv THEN "Some" ELSE "None")
    IN  IF ~in.conv
        THEN Abort(f2, "new_from_input_device")
        ELSE
          LET f3 == Added(kind, f2, in)
          IN  IF f3.status = "running" /\ f3.accepted = "Some"
              THEN LET f4 == IF kind = WLR_INPUT_DEVICE_KEYBOARD
                             THEN add_keyboard(f3, in) ELSE f3
                   IN  IF f4.status = "running" THEN Bind(kind, f4) ELSE f4
              ELSE f3

Arm(kind, f, in) ==
    LET f1 == IF kind = WLR_INPUT_DEVICE_KEYBOARD THEN add_keyboard(f, in) ELSE f
    IN  IF f1.status # "running" THEN f1
        ELSE
          LET f2 == Call(f1, "new_from_input_device", IF in.conv THEN "Some" ELSE "None")
          IN  IF ~in.conv
              THEN Abort(f2, "new_from_input_device")
              ELSE
                LET f3 == Added(kind, f2, in)
                IN  IF f3.status = "running" /\ f3.accepted = "Some"
                    THEN Bind(kind, f3)
                    ELSE f3

-----------------------------------------------------------------------------
(* add_notify *)

\* match dev.dev_type() { .. }
MatchDevType(f, in) ==
    LET t == f.dev.type
    IN  IF t \in KnownKinds
        THEN Arm(t, [f EXCEPT !.arm = t], in)
        ELSE CASE in.ub = "trap" -> Abort([f EXCEPT !.arm = "trap"], "match")
               [] in.ub = "skip" -> [f EXCEPT !.arm = "skip"]
               [] OTHER -> Arm(in.ub, [f EXCEPT !.arm = in.ub], in)

\* manager.input_added(compositor, &mut dev)
input_added(f, in) ==
    LET r == IF "input_added" \in manager THEN in.hook ELSE DefaultInputAdded
        f1 == Call(f, "input_added", "")
    IN  IF r = "panic" THEN Panic(f1, "input_added") ELSE f1

\* Closure that calls input_added before the match.
ClosureHookFirst(f, in) ==
    LET f1 == input_added(f, in)
    IN  IF f1.status = "running" THEN MatchDevType(f1, in) ELSE f1

\* Closure that calls input_added only for a device that was bound.
ClosureHookOnlyIfBound(f, in) ==
    LET f1 == MatchDevType(f, in)
    IN  IF f1.status = "running" /\ f1.accepted = "Some"
        THEN input_added(f1, in)
        ELSE f1

\* The closure given to panic::catch_unwind.
Closure(f, in) ==
    LET f1 == MatchDevType(f, in)
    IN  IF f1.status = "running" THEN input_added(f1, in) ELSE f1

\* MatchRes that lets a caught panic go.
MatchResIgnoresErr(f) ==
    CASE f.status = "panicked" -> [f EXCEPT !.status = "returned"]
      [] f.status = "running" -> [f EXCEPT !.status = "returned"]
      [] OTHER -> f

\* match res { Ok(_) => {}, Err(_) => abort() }
MatchRes(f) ==
    CASE f.status = "panicked" -> Abort(f, "catch_unwind")
      [] f.status = "running" -> [f EXCEPT !.status = "returned"]
      [] OTHER -> f

\* add_notify that goes on without a compositor handle.
add_notifyIgnoresMissingCompositor(f, in) ==
    MatchRes(Closure(f, in))

\* let compositor = match compositor_handle() { Some(..), None => return };
\* then the closure under catch_unwind and the match on its result
add_notify(f, in) ==
    IF ~in.compositor
    THEN [f EXCEPT !.status = "returned"]
    ELSE MatchRes(Closure([f EXCEPT !.compositor = TRUE], in))

-----------------------------------------------------------------------------
(* Actions *)

\* What the callees outside this file may answer during one notification.
Answers ==
    [ compositor : BOOLEAN,               \* compositor_handle() is Some
      ctxOk : BOOLEAN,                    \* xkb_context_new is not null
      mapOk : BOOLEAN,                    \* xkb_keymap_new_from_names is not null
      conv : BOOLEAN,                     \* <Kind>::new_from_input_device is Some
      accept : {"Some", "None", "panic"}, \* a user-written <kind>_added
      hook : {"ok", "panic"},             \* a user-written input_added
      ub : UBOutcomes ]                   \* the match on a non-enumerator

\* The answers that differ in something a notification for a device of raw
\* type t asks for: an answer that is never asked for is held at one value.
Inputs(t) ==
    LET arm(in) == IF t \in KnownKinds THEN t ELSE in.ub
        kbd(in) == in.compositor /\ arm(in) = WLR_INPUT_DEVICE_KEYBOARD
        conv(in) == in.compositor /\ arm(in) \in KnownKinds
                        /\ (kbd(in) => in.ctxOk /\ in.mapOk)
        added(in) == conv(in) /\ in.conv
        hook(in) == in.compositor /\ arm(in) # "trap"
                        /\ (arm(in) \in KnownKinds => added(in) /\ in.accept # "panic")
    IN  { in \in Answers :
            /\ (t \in KnownKinds \/ ~in.compositor) => in.ub = "skip"
            /\ ~kbd(in) => in.ctxOk
            /\ ~(kbd(in) /\ in.ctxOk) => in.mapOk
            /\ ~conv(in) => in.conv
            /\ ~(added(in) /\ AddedOp(arm(in)) \in manager) => in.accept = "None"
            /\ ~(hook(in) /\ "input_added" \in manager) => in.hook = "ok" }

\* Deliver with one slot and one set of listeners for the whole process:
\* what the notification stores is stored on every attached device.
DeliverSharedSlot(d, device, in) ==
    LET f == add_notify(Frame([device EXCEPT !.adds = @ + 1]), in)
    IN  /\ dev' = [e \in Devices |->
                     IF e = d THEN f.dev
                     ELSE IF dev[e].life = "attached"
                          THEN [dev[e] EXCEPT !.data = f.dev.data,
                                              !.subs = f.dev.subs,
                                              !.units = f.dev.units]
                          ELSE dev[e]]
        /\ xkb' = f.xkb
        /\ note' = [ d |-> d, type |-> device.type, status |-> f.status,
                     trace |-> f.trace, arm |-> f.arm,
                     compositor |-> f.compositor, accepted |-> f.accepted,
                     names |-> f.names ]
        /\ proc' = IF f.status = "aborted" THEN "aborted" ELSE proc
        /\ UNCHANGED <<manager, env>>

\* One run of add_notify on the device it was given (data): every write of
\* the handler goes through that pointer.
Deliver(d, device, in) ==
    LET f == add_notify(Frame([device EXCEPT !.adds = @ + 1]), in)
    IN  /\ dev' = [dev EXCEPT ![d] = f.dev]
        /\ xkb' = f.xkb
        /\ note' = [ d |-> d, type |-> device.type, status |-> f.status,
                     trace |-> f.trace, arm |-> f.arm,
                     compositor |-> f.compositor, accepted |-> f.accepted,
                     names |-> f.names ]
        /\ proc' = IF f.status = "aborted" THEN "aborted" ELSE proc
        /\ UNCHANGED <<manager, env>>

\* The driver attaches device d (ids are given in order of attachment) and
\* the event loop delivers its device-added notification.
AddNotify(d) ==
    /\ proc = "running"
    /\ dev[d].life = "absent"
    /\ \A e \in Devices : e < d => dev[e].life # "absent"
    /\ \E t \in RawKinds : \E in \in Inputs(t) :
          Deliver(d, [NoDevice("attached") EXCEPT !.type = t], in)

\* A device-added notification is delivered for a device that has already
\* been announced.
ReAddNotify(d) ==
    /\ proc = "running"
    /\ dev[d].life = "attached"
    /\ dev[d].adds < MaxAdds
    /\ \E in \in Inputs(dev[d].type) : Deliver(d, dev[d], in)

\* The driver emits an event on channel ch of device d: every listener
\* linked into that signal runs its handler callback.
Event(d, ch) ==
    /\ proc = "running"
    /\ dev[d].life = "attached"
    /\ ch \in DeviceChannels(dev[d].type)
    /\ dev' = [dev EXCEPT
                  ![d].emitted = TRUE,
                  ![d].ran = Cardinality({ i \in DOMAIN dev[d].subs :
                                             dev[d].subs[i].ch = ch })]
    /\ UNCHANGED <<proc, manager, env, note, xkb>>

\* Destroy whose listeners stay linked and whose wrapper is not dropped.
DestroyLeavesBoundUnit(d) ==
    /\ proc = "running"
    /\ dev[d].life = "attached"
    /\ dev' = [dev EXCEPT ![d].life = "destroyed"]
    /\ UNCHANGED <<proc, manager, env, note, xkb>>

\* The driver emits destroy for device d and frees it: every wrapper's
\* destroy listener unlinks its listeners and drops the wrapper.
Destroy(d) ==
    /\ proc = "running"
    /\ dev[d].life = "attached"
    /\ dev' = [dev EXCEPT ![d] =
                  [NoDevice("destroyed") EXCEPT !.released = Cardinality(dev[d].units)]]
    /\ UNCHANGED <<proc, manager, env, note, xkb>>

Next ==
    \E d \in Devices :
        \/ AddNotify(d)
        \/ Destroy(d)
        \/ \E ch \in EventChannels : Event(d, ch)

Spec == Init /\ [][Next]_vars

\* The device-added and destroy notifications of the first device alone,
\* with user code in every method of the manager, where the event loop may
\* also deliver device-added for a device it has already announced.
InitRedeliver ==
    /\ Init
    /\ manager = Methods
    /\ env = AllUnset

NextRedeliver ==
    \/ AddNotify(1)
    \/ ReAddNotify(1)
    \/ Destroy(1)

SpecRedeliver == InitRedeliver /\ [][NextRedeliver]_vars

\* The device-added and destroy notifications of the first device alone,
\* for a manager with only defaults, in every environment
\* of the five variables: each unset, set to a valid value, or set to a
\* value that is not valid Unicode.
EnvAll == { e \in [EnvVars -> {UNSET, NOT_UNICODE} \cup { SampleValue(v) : v \in EnvVars }] :
              \A v \in EnvVars : e[v] \in {UNSET, NOT_UNICODE, SampleValue(v)} }

InitEnv ==
    /\ proc = "running"
    /\ manager = {}
    /\ env \in EnvAll
    /\ dev = [d \in Devices |-> NoDevice("absent")]
    /\ note = NoNote
    /\ xkb = [ctx |-> 0, map |-> 0]

NextEnv ==
    \/ AddNotify(1)
    \/ Destroy(1)

SpecEnv == InitEnv /\ [][NextEnv]_vars

-----------------------------------------------------------------------------
(* Reading the trace of the most recent notification *)

Idx(op) == { i \in DOMAIN note.trace : note.trace[i].op = op }

Count(op) == Cardinality(Idx(op))

IsSignalAdd(e) == e.op = "wl_signal_add"

\* The channels subscribed to by the notification, in order.
Installed ==
    LET adds == SelectSeq(note.trace, IsSignalAdd)
    IN  [i \in 1..Len(adds) |-> adds[i].arg]

\* Every call add_notify makes for the kind of the device, as opposed to the
\* generic input_added.
KindSpecificOps ==
    AddedOps \cup
    { "add_keyboard", "xkb_context_new", "xkb_keymap_new_from_names",
      "wlr_keyboard_set_keymap", "xkb_keymap_unref", "xkb_context_unref",
      "wlr_keyboard_set_repeat_info", "new_from_input_device", "Wrapper::new",
      "wl_signal_add", "set_data" }

-----------------------------------------------------------------------------
(* Properties *)

\* C1: when the acceptance operation of the device's kind returns nothing and
\* the notification returns, the notification has installed no listener
\* (kind-specific or destroy), made no wrapper and stored nothing in the
\* device's slot, and the device has no listener, no Bound Unit and an empty
\* slot.
C1_DeclineLeavesDeviceUnbound ==
    (note.status = "returned" /\ note.accepted = "None") =>
        /\ Count("wl_signal_add") = 0
        /\ Count("Wrapper::new") = 0
        /\ Count("set_data") = 0
        /\ dev[note.d].subs = <<>>
        /\ dev[note.d].units = {}
        /\ dev[note.d].data = NULL

\* A user-written touch_added has declined a touch device, which is still
\* attached.
C1_Witness ==
    /\ note.status = "returned"
    /\ note.accepted = "None"
    /\ note.type = WLR_INPUT_DEVICE_TOUCH
    /\ Count("touch_added") = 1
    /\ "touch_added" \in manager
    /\ dev[note.d].life = "attached"

\* C2: when the acceptance operation returns a handler, the channels the
\* notification subscribes to are the channel set of the kind, each once, and
\* then destroy, last; these are the listeners the device then has, all of
\* the one Bound Unit in its slot.
C2_FixedChannelsThenDestroy ==
    note.accepted = "Some" =>
        LET n == Len(Installed)
        IN  /\ note.arm \in KnownKinds
            /\ n = Cardinality(ChannelSet(note.arm)) + 1
            /\ { Installed[i] : i \in 1..(n - 1) } = ChannelSet(note.arm)
            /\ Installed[n] = "destroy"
            /\ dev[note.d].life = "attached" =>
                 dev[note.d].subs =
                    [i \in 1..n |-> [ch |-> Installed[i], unit |-> dev[note.d].data]]

\* A tablet pad has been accepted and bound: three channels and destroy.
C2_Witness ==
    /\ note.status = "returned"
    /\ note.accepted = "Some"
    /\ note.type = WLR_INPUT_DEVICE_TABLET_PAD
    /\ Len(dev[note.d].subs) = 4

\* C3: when a panic is raised during a notification, the process is aborted
\* and the notification does not return, whatever had been installed.
C3_PanicAborts ==
    Idx("panic") # {} =>
        /\ proc = "aborted"
        /\ note.status = "aborted"
        /\ note.trace[Len(note.trace)].op = "abort"

\* input_added has panicked for a device that had just been bound.
C3_Witness ==
    /\ \E i \in Idx("panic") : note.trace[i].arg = "input_added"
    /\ Count("wl_signal_add") > 0
    /\ dev[note.d].data # NULL

\* C4: input_added is called after every kind-specific call of the
\* notification: for the keyboard arm the keymap and the repeat policy have
\* been set, the acceptance operation of the arm has returned, and if it
\* returned a handler every listener is installed and the slot is set.
C4_HookAfterKindSpecific ==
    \A i \in Idx("input_added") :
        /\ \A j \in DOMAIN note.trace :
              note.trace[j].op \in KindSpecificOps => j < i
        /\ note.arm \in KnownKinds =>
              /\ Count(AddedOp(note.arm)) = 1
              /\ note.accepted \in {"Some", "None"}
              /\ note.arm = WLR_INPUT_DEVICE_KEYBOARD =>
                    /\ Count("wlr_keyboard_set_keymap") = 1
                    /\ Count("wlr_keyboard_set_repeat_info") = 1
              /\ note.accepted = "Some" =>
                    /\ Count("wl_signal_add") = Cardinality(ChannelSet(note.arm)) + 1
                    /\ Count("set_data") = 1

\* A keyboard has been set up, accepted and bound, and then input_added ran.
C4_Witness ==
    /\ note.status = "returned"
    /\ note.type = WLR_INPUT_DEVICE_KEYBOARD
    /\ note.accepted = "Some"
    /\ "input_added" \in manager
    /\ note.trace[Len(note.trace)].op = "input_added"
    /\ dev[note.d].data # NULL

\* C5 as stated: every notification that returns has called input_added
\* exactly once.
C5_HookOncePerReturn ==
    note.status = "returned" => Count("input_added") = 1

\* C5 amended: every notification that returns and had a compositor handle
\* has called input_added exactly once, accepted or declined; and a device
\* without a Bound Unit has no handler callback run by any event.
C5_HookOnceWithCompositor ==
    /\ (note.status = "returned" /\ note.compositor) => Count("input_added") = 1
    /\ \A d \in Devices : dev[d].units = {} => dev[d].ran = 0

\* A declined pointer: input_added was called, and the driver has emitted a
\* pointer event, for which no callback ran.
C5_Witness ==
    /\ note.status = "returned"
    /\ note.type = WLR_INPUT_DEVICE_POINTER
    /\ note.accepted = "None"
    /\ "pointer_added" \in manager
    /\ Count("input_added") = 1
    /\ dev[note.d].emitted
    /\ dev[note.d].ran = 0

\* C6 as stated: every notification for a keyboard has run add_keyboard
\* exactly once.
C6_KeymapOncePerKeyboard ==
    (note.status # "none" /\ note.type = WLR_INPUT_DEVICE_KEYBOARD) =>
        Count("add_keyboard") = 1

\* C6 amended: every notification for a keyboard that had a compositor handle
\* has run add_keyboard exactly once, whether keyboard_added then accepted,
\* declined or panicked.
C6_KeymapOnceWithCompositor ==
    (note.compositor /\ note.type = WLR_INPUT_DEVICE_KEYBOARD) =>
        Count("add_keyboard") = 1

\* A user-written keyboard_added has declined a keyboard that was set up.
C6_Witness ==
    /\ note.status = "returned"
    /\ note.type = WLR_INPUT_DEVICE_KEYBOARD
    /\ note.accepted = "None"
    /\ "keyboard_added" \in manager
    /\ Count("add_keyboard") = 1

\* C7: keyboard_added is called only after the keymap and the repeat policy
\* have been set on the device; the keymap set is the one compiled from the
\* environment, and the repeat policy set is rate 25, delay 600, whatever
\* the environment holds and whatever keyboard_added answers.
C7_KeymapBeforeKeyboardAdded ==
    /\ \A i \in Idx("keyboard_added") :
          /\ \E j \in Idx("wlr_keyboard_set_keymap") : j < i
          /\ \E j \in Idx("wlr_keyboard_set_repeat_info") : j < i
    /\ (Count("wlr_keyboard_set_repeat_info") > 0 /\ dev[note.d].life = "attached") =>
          /\ dev[note.d].repeat = <<25, 600>>
          /\ dev[note.d].keymap = note.names
    /\ \A d \in Devices : dev[d].repeat \in {NoRepeat, <<25, 600>>}

\* With XKB_DEFAULT_LAYOUT=us, a keyboard was offered to a user-written
\* keyboard_added, which declined it.
C7_Witness ==
    /\ env["XKB_DEFAULT_LAYOUT"] = "us"
    /\ note.type = WLR_INPUT_DEVICE_KEYBOARD
    /\ Count("keyboard_added") = 1
    /\ note.accepted = "None"
    /\ "keyboard_added" \in manager
    /\ dev[note.d].keymap["XKB_DEFAULT_LAYOUT"] = "us"
    /\ dev[note.d].repeat = <<25, 600>>

\* C8: a notification (with a compositor handle) for a device whose raw type
\* is none of the five kinds aborts the process without having called any
\* method of the manager.
C8_UnknownKindAborts ==
    (note.compositor /\ note.type = OUT_OF_RANGE) =>
        /\ proc = "aborted"
        /\ \A i \in DOMAIN note.trace : note.trace[i].op \notin Methods

\* C9: with a manager that overrides nothing, every acceptance operation
\* returns nothing, no panic comes out of a method of the manager, and no
\* device ever has a listener, a Bound Unit or a slot value.
C9_DefaultsDecline ==
    manager = {} =>
        /\ note.accepted \in {"-", "None"}
        /\ \A i \in Idx("panic") : note.trace[i].arg \notin Methods
        /\ \A d \in Devices :
              /\ dev[d].subs = <<>>
              /\ dev[d].units = {}
              /\ dev[d].data = NULL

\* With only defaults, two devices of different known kinds are attached and
\* the default acceptance operation of the second has been called.
C9_Witness ==
    /\ manager = {}
    /\ dev[1].life = "attached"
    /\ dev[2].life = "attached"
    /\ dev[1].type \in KnownKinds
    /\ dev[2].type \in KnownKinds
    /\ dev[1].type # dev[2].type
    /\ note.status = "returned"
    /\ Count(AddedOp(dev[2].type)) = 1

\* C10 as stated: a device never has more than one Bound Unit, also when
\* device-added is delivered for a device that is already bound.
C10_AtMostOneBoundUnit ==
    \A d \in Devices : Cardinality(dev[d].units) <= 1

\* C10 amended: a device for which device-added has been delivered at most
\* once has at most one Bound Unit; in general it has at most as many Bound
\* Units as device-added notifications delivered for it, and its slot holds
\* one of them or nothing.
C10_OneBoundUnitPerDelivery ==
    \A d \in Devices :
        /\ dev[d].adds <= 1 => Cardinality(dev[d].units) <= 1
        /\ Cardinality(dev[d].units) <= dev[d].adds
        /\ dev[d].data \in dev[d].units \cup {NULL}

\* A device announced once and bound.
C10_Witness ==
    /\ dev[1].life = "attached"
    /\ dev[1].adds = 1
    /\ Cardinality(dev[1].units) = 1
    /\ dev[1].data # NULL

\* C11: in every state, a device has listeners if and only if it has a Bound
\* Unit.
C11_ListenersIffBoundUnit ==
    \A d \in Devices : (dev[d].subs # <<>>) <=> (dev[d].units # {})

\* One attached device is bound and has its listeners while another attached
\* device has neither.
C11_Witness ==
    /\ dev[1].life = "attached"
    /\ dev[1].subs # <<>>
    /\ dev[1].units # {}
    /\ dev[2].life = "attached"
    /\ dev[2].subs = <<>>
    /\ dev[2].units = {}

\* C12: the step in which destroy fires for a device leaves it with no
\* listener, no Bound Unit and an empty slot, having dropped each of its
\* Bound Units once (one, for a bound device); and nothing happens to a
\* destroyed device afterwards: no callback runs and nothing is dropped again.
C12_DestroyTearsDownOnce ==
    [][ \A d \in Devices :
          /\ (dev[d].life = "attached" /\ dev'[d].life = "destroyed") =>
                /\ dev'[d].subs = <<>>
                /\ dev'[d].units = {}
                /\ dev'[d].data = NULL
                /\ dev'[d].released = Cardinality(dev[d].units)
                /\ dev'[d].released <= 1
                /\ dev'[d].ran = 0
          /\ dev[d].life = "destroyed" => dev'[d] = dev[d] ]_vars

\* A device that was bound has been destroyed, and its one Bound Unit dropped.
C12_Witness ==
    \E d \in Devices :
        /\ dev[d].life = "destroyed"
        /\ dev[d].released = 1
        /\ dev[d].subs = <<>>

\* C13 as stated: whenever add_keyboard has run, on any path, the context
\* and the keymap it acquired have been released, each once.
C13_XkbReleasedOnEveryPath ==
    Count("add_keyboard") > 0 =>
        /\ xkb.ctx = 0
        /\ xkb.map = 0
        /\ Count("xkb_context_unref") <= 1
        /\ Count("xkb_keymap_unref") <= 1

\* C13 amended: when add_keyboard completes, the context and the keymap have
\* each been released exactly once; when the context cannot be created,
\* nothing was acquired and nothing is released; when the keymap cannot be
\* compiled, no keymap was acquired and the context is not released before
\* the panic.
C13_XkbReleasedOnSuccess ==
    /\ xkb.map = 0
    /\ proc = "running" => xkb.ctx = 0
    /\ Count("wlr_keyboard_set_repeat_info") > 0 =>
          /\ Count("xkb_context_unref") = 1
          /\ Count("xkb_keymap_unref") = 1
          /\ (\A i \in Idx("xkb_keymap_unref") :
                 \A j \in Idx("wlr_keyboard_set_repeat_info") : i < j)
          /\ note.status = "returned" => xkb.ctx = 0
    /\ (\E i \in Idx("panic") : note.trace[i].arg = "add_keyboard") =>
          /\ Count("xkb_context_unref") = 0
          /\ Count("xkb_keymap_unref") = 0
          /\ xkb.ctx = Count("xkb_keymap_new_from_names")

\* A keyboard has been set up and add_keyboard has released both objects.
C13_Witness ==
    /\ note.status = "returned"
    /\ note.type = WLR_INPUT_DEVICE_KEYBOARD
    /\ Count("xkb_context_unref") = 1
    /\ Count("xkb_keymap_unref") = 1
    /\ xkb = [ctx |-> 0, map |-> 0]

\* C14: when add_keyboard panics (the context cannot be created or the keymap
\* cannot be compiled), the process is aborted, no keymap and no repeat
\* policy has been set on the device, no method of the manager has been
\* called and no listener has been added.
C14_KeymapFailureAborts ==
    (\E i \in Idx("panic") : note.trace[i].arg = "add_keyboard") =>
        /\ proc = "aborted"
        /\ note.status = "aborted"
        /\ Count("wlr_keyboard_set_keymap") = 0
        /\ Count("wlr_keyboard_set_repeat_info") = 0
        /\ dev[note.d].keymap = NoKeymap
        /\ dev[note.d].repeat = NoRepeat
        /\ \A i \in DOMAIN note.trace : note.trace[i].op \notin Methods
        /\ Count("wl_signal_add") = 0
        /\ dev[note.d].subs = <<>>
        /\ dev[note.d].units = {}

\* The keymap of a keyboard could not be compiled, with user code in the
\* manager.
C14_Witness ==
    /\ note.type = WLR_INPUT_DEVICE_KEYBOARD
    /\ manager = Methods
    /\ Count("xkb_keymap_new_from_names") = 1
    /\ \E i \in Idx("panic") : note.trace[i].arg = "add_keyboard"
    /\ proc = "aborted"

\* C15: when new_from_input_device returns nothing in the arm of any kind,
\* the process is aborted with no method of the manager called and no
\* listener added; in the keyboard arm the keymap and the repeat policy have
\* by then been set on the device.
C15_FailedConversionAborts ==
    (\E i \in Idx("new_from_input_device") : note.trace[i].arg = "None") =>
        /\ \E i \in Idx("abort") : note.trace[i].arg = "new_from_input_device"
        /\ proc = "aborted"
        /\ note.status = "aborted"
        /\ \A i \in DOMAIN note.trace : note.trace[i].op \notin Methods
        /\ Count("wl_signal_add") = 0
        /\ dev[note.d].subs = <<>>
        /\ dev[note.d].units = {}
        /\ dev[note.d].data = NULL
        /\ note.arm = WLR_INPUT_DEVICE_KEYBOARD =>
              /\ Count("wlr_keyboard_set_keymap") = 1
              /\ Count("wlr_keyboard_set_repeat_info") = 1
              /\ dev[note.d].keymap = note.names
              /\ dev[note.d].repeat = <<25, 600>>
        /\ note.arm # WLR_INPUT_DEVICE_KEYBOARD => Count("add_keyboard") = 0

\* The conversion of a keyboard failed after its keymap had been set.
C15_Witness ==
    /\ note.type = WLR_INPUT_DEVICE_KEYBOARD
    /\ manager = Methods
    /\ \E i \in Idx("new_from_input_device") : note.trace[i].arg = "None"
    /\ Count("wlr_keyboard_set_keymap") = 1
    /\ proc = "aborted"

\* The notification has stored a wrapper in the slot only after it added
\* every listener of the arm's channel set and the destroy listener, and a
\* notification that was given a handler has stored it.
PublishedAfterListeners ==
    /\ \A i \in Idx("set_data") :
          /\ \A j \in Idx("wl_signal_add") : j < i
          /\ { note.trace[j].arg : j \in Idx("wl_signal_add") } =
                ChannelSet(note.arm) \cup {"destroy"}
          /\ Count("wl_signal_add") = Cardinality(ChannelSet(note.arm)) + 1
    /\ note.accepted = "Some" =>
          /\ Count("set_data") = 1
          /\ dev[note.d].life = "attached" =>
                /\ dev[note.d].data # NULL
                /\ dev[note.d].data \in dev[note.d].units

\* C16: the Bound Unit is stored in the device's slot only after all the
\* listeners, destroy included, have been added; and from then on the slot
\* keeps holding that live Bound Unit for as long as the device is not
\* destroyed.
C16_PublishedLastAndKept ==
    [][ /\ PublishedAfterListeners'
        /\ \A d \in Devices :
              (dev[d].life = "attached" /\ dev[d].data # NULL
                  /\ dev'[d].life = "attached") =>
                 /\ dev'[d].data = dev[d].data
                 /\ dev'[d].data \in dev'[d].units ]_vars

\* A bound device has since had an event delivered to its handler through
\* the Bound Unit in its slot.
C16_Witness ==
    \E d \in Devices :
        /\ dev[d].life = "attached"
        /\ dev[d].type = WLR_INPUT_DEVICE_TABLET_TOOL
        /\ dev[d].data \in dev[d].units
        /\ dev[d].emitted
        /\ dev[d].ran = 1

\* Every device on which a handler callback has run has all the listeners of
\* its kind and the destroy listener, and its Bound Unit in its slot.
CallbacksOnlyWhenBound ==
    \A d \in Devices :
        dev[d].ran > 0 =>
            /\ dev[d].data \in dev[d].units
            /\ Len(dev[d].subs) = Cardinality(ChannelSet(dev[d].type)) + 1
            /\ { dev[d].subs[i].ch : i \in DOMAIN dev[d].subs } =
                  ChannelSet(dev[d].type) \cup {"destroy"}

\* C17: a step that handles a device-added notification delivers no event
\* and no destroy notification to any device, and a handler callback only
\* ever runs on a device whose listeners are all installed and whose Bound
\* Unit is in its slot.
C17_NoCallbackDuringAddNotify ==
    [][ /\ CallbacksOnlyWhenBound'
        /\ (\E d \in Devices : dev'[d].adds > dev[d].adds) =>
              \A e \in Devices :
                 /\ dev'[e].emitted = dev[e].emitted
                 /\ dev'[e].ran = dev[e].ran
                 /\ dev'[e].released = dev[e].released
                 /\ (dev'[e].life = "destroyed") <=> (dev[e].life = "destroyed") ]_vars

\* A pointer was bound by the most recent notification and a callback of its
\* handler has run since.
C17_Witness ==
    /\ note.status = "returned"
    /\ note.type = WLR_INPUT_DEVICE_POINTER
    /\ note.accepted = "Some"
    /\ dev[note.d].life = "attached"
    /\ dev[note.d].ran = 1

\* C18 as stated: each of the five values given to the keymap compiler is
\* the value of its own variable when the variable is set, and the empty
\* string when it is unset.
C18_NamesAreTheEnvironment ==
    Count("xkb_keymap_new_from_names") > 0 =>
        \A v \in EnvVars :
            /\ env[v] = UNSET => note.names[v] = ""
            /\ env[v] # UNSET => note.names[v] = env[v]

\* C18 amended: each of the five values given to the keymap compiler is the
\* value of its own variable when the variable is set to valid Unicode, and
\* the empty string when it is unset or set to a value that is not valid
\* Unicode, whatever the other four hold; with all five unset the compiler
\* is given five empty strings.
C18_NamesAreTheUnicodeEnvironment ==
    Count("xkb_keymap_new_from_names") > 0 =>
        /\ \A v \in EnvVars :
              /\ env[v] = SampleValue(v) => note.names[v] = SampleValue(v)
              /\ env[v] \in {UNSET, NOT_UNICODE} => note.names[v] = ""
        /\ env = AllUnset => \A v \in EnvVars : note.names[v] = ""

\* The compiler was called with the layout set, the variant unset and the
\* other three set, one of them not to valid Unicode.
C18_Witness ==
    /\ Count("xkb_keymap_new_from_names") = 1
    /\ env["XKB_DEFAULT_LAYOUT"] = "us"
    /\ env["XKB_DEFAULT_VARIANT"] = UNSET
    /\ env["XKB_DEFAULT_RULES"] = "evdev"
    /\ env["XKB_DEFAULT_MODEL"] = NOT_UNICODE
    /\ env["XKB_DEFAULT_OPTIONS"] = "ctrl:nocaps"
    /\ note.names["XKB_DEFAULT_LAYOUT"] = "us"
    /\ note.names["XKB_DEFAULT_VARIANT"] = ""

\* C19: a step that delivers a device-added notification while no compositor
\* handle is available returns normally and does nothing: it makes no call
\* (no keymap initialization, no acceptance operation, no subscription, no
\* wrapper, no input_added), the process keeps running, the xkb objects are
\* as before, and the device's keymap, repeat policy, listeners, Bound Units
\* and slot, like every other device, are as before.
C19_NoCompositorDoesNothing ==
    [][ \A d \in Devices :
          (dev'[d].adds > dev[d].adds /\ ~note'.compositor) =>
              /\ note'.d = d
              /\ note'.status = "returned"
              /\ note'.trace = <<>>
              /\ note'.arm = "none"
              /\ note'.accepted = "-"
              /\ proc' = proc
              /\ xkb' = xkb
              /\ dev'[d].keymap = dev[d].keymap
              /\ dev'[d].repeat = dev[d].repeat
              /\ dev'[d].subs = dev[d].subs
              /\ dev'[d].units = dev[d].units
              /\ dev'[d].data = dev[d].data
              /\ \A e \in Devices \ {d} : dev'[e] = dev[e] ]_vars

\* A keyboard was announced to a manager with a user-written keyboard_added
\* and input_added while no compositor handle was available.
C19_Witness ==
    /\ note.d \in Devices
    /\ note.status = "returned"
    /\ ~note.compositor
    /\ note.type = WLR_INPUT_DEVICE_KEYBOARD
    /\ manager = Methods
    /\ dev[note.d].life = "attached"
    /\ dev[note.d].adds = 1
    /\ dev[note.d].keymap = NoKeymap
    /\ dev[note.d].repeat = NoRepeat
    /\ proc = "running"

\* C20 as stated, for the notifications that got a compositor handle (without
\* one the notification completes with no acceptance operation at all): a
\* notification that completes has invoked exactly one acceptance operation,
\* once, the one of the device's kind, and has run no keymap initialization
\* and set no repeat policy unless the device is a keyboard.
C20_ExactlyTheMatchingAcceptance ==
    (note.status = "returned" /\ note.compositor) =>
        /\ note.type \in KnownKinds
        /\ Count(AddedOp(note.type)) = 1
        /\ \A op \in AddedOps \ {AddedOp(note.type)} : Count(op) = 0
        /\ note.type # WLR_INPUT_DEVICE_KEYBOARD =>
              /\ Count("add_keyboard") = 0
              /\ Count("wlr_keyboard_set_keymap") = 0
              /\ Count("wlr_keyboard_set_repeat_info") = 0
              /\ dev[note.d].keymap = NoKeymap
              /\ dev[note.d].repeat = NoRepeat

\* C21: a step that handles a device-added notification for one device
\* leaves every other device as it was: its listeners, its slot and its
\* Bound Units (and its keymap and repeat policy) are the same before and
\* after the step, whatever the notification did to its own device and in
\* whatever order the devices were announced.
C21_OtherDevicesUnchanged ==
    [][ \A d \in Devices :
          dev'[d].adds > dev[d].adds =>
              \A e \in Devices \ {d} :
                 /\ dev'[e].subs = dev[e].subs
                 /\ dev'[e].data = dev[e].data
                 /\ dev'[e].units = dev[e].units
                 /\ dev'[e].keymap = dev[e].keymap
                 /\ dev'[e].repeat = dev[e].repeat
                 /\ dev'[e].life = dev[e].life ]_vars

\* The second device, a touch device, was declined by the most recent
\* notification while the first, a pointer, is bound with its five listeners
\* and its Bound Unit in its slot.
C21_Witness ==
    /\ note.d = 2
    /\ note.status = "returned"
    /\ note.type = WLR_INPUT_DEVICE_TOUCH
    /\ note.accepted = "None"
    /\ dev[2].data = NULL
    /\ dev[2].subs = <<>>
    /\ dev[1].life = "attached"
    /\ dev[1].type = WLR_INPUT_DEVICE_POINTER
    /\ dev[1].data \in dev[1].units
    /\ Len(dev[1].subs) = 5

====
